---- MODULE Spec2Model ----
(***************************************************************************)
(* Chat route of the 537-AI-ChatBox application:                           *)
(*   src/app/(chat)/api/chat/route.ts  -- POST and DELETE handlers, the    *)
(*   streaming turn (streamText with tools) and its completion handler.    *)
(*                                                                         *)
(* Every handler is cut at its await points: one action is the code that   *)
(* runs between two awaits, and a call to the persistence layer takes      *)
(* effect in the action that issues it.  Strings are sequences of tokens   *)
(* (so concatenation is \o), identifiers made by generateUUID are fresh    *)
(* integers, and an optional value (T | undefined) is a sequence of        *)
(* length 0 or 1.                                                          *)
(***************************************************************************)
EXTENDS Integers, Sequences, FiniteSets, TLC

VARIABLES
    chats,      \* Chat table: chat id -> [userId, title]
    msgs,       \* Message table: set of [id, chatId, role, content]
    docs,       \* Document table: document id -> [title, kind, content, userId]
    suggs,      \* Suggestion table: set of rows
    reqs,       \* the handler invocations in flight, one per slot
    nextId,     \* the next identifier generateUUID hands out
    nreq,       \* requests received so far
    deleted,    \* history: <<chat id, owner>> of every chat its owner has deleted
    widget      \* the InlineChat component of one browser and the calls it has made

vars == <<chats, msgs, docs, suggs, reqs, nextId, nreq, deleted, widget>>

---------------------------------------------------------------------------
(* Bounds of the exploration *)

NumSlots == 2          \* handler invocations that may be in flight together
MaxRequests == 4       \* requests received in one behaviour
NumChatIds == 1        \* chat identifiers clients use
MaxMessages == 2       \* length of a submitted message sequence
MaxStreams == 1        \* turns streaming at the same time
MaxToolCalls == 2      \* tool calls of one turn
MaxDeltas == 2         \* parts one sub-generation yields

MaxWidgetIds == 2      \* conversation identifiers the inline chat generates
MaxWidgetPosts == 1    \* messages the inline chat submits
MaxStepCalls == 6      \* tool calls of one turn where only the steps are counted
MaxStepWidth == 1      \* tool calls of one step where only the steps are counted
MaxTexts == 1          \* text parts the model yields in one step

(* Program constants *)

maxSteps == 5

---------------------------------------------------------------------------
(* Inputs *)

Slots == 1..NumSlots
Users == {"u1", "u2"}
\* auth() yields no session, a session without user, a user without id, or a user
Sessions == {"none", "nouser", "noid"} \cup Users
ChatIds == 1..NumChatIds
NoId == 0                                  \* DELETE without ?id=
models == {"gpt-4o-mini", "gpt-4o"}
ModelIdInputs == {"gpt-4o", "no-such-model"}
Contents == {<<"a">>, <<"b">>}
UIMessages ==
    [role : {"user"}, content : Contents, toolInvocations : {0}]
    \cup [role : {"assistant"}, content : {<<"r">>}, toolInvocations : {0, 1}]

RECURSIVE SeqsUpTo(_, _)
SeqsUpTo(S, n) ==
    IF n = 0 THEN {<<>>}
    ELSE LET shorter == SeqsUpTo(S, n - 1)
         IN shorter \cup {Append(s, x) : s \in {t \in shorter : Len(t) = n - 1}, x \in S}

MessagesInputs == SeqsUpTo(UIMessages, MaxMessages)
\* the submissions the turn with tools is explored for
TurnMessagesInputs ==
    {<<>>, <<[role |-> "assistant", content |-> <<"r">>, toolInvocations |-> 1]>>,
     <<[role |-> "user", content |-> <<"a">>, toolInvocations |-> 0]>>}
\* the submissions interleaved requests are explored for
SystemMessagesInputs ==
    {<<>>, <<[role |-> "user", content |-> <<"a">>, toolInvocations |-> 0]>>}

---------------------------------------------------------------------------
(* Pure helpers *)

TextPart(t) == [type |-> "text", text |-> t, toolCallId |-> 0]
ToolCallPart(tid) == [type |-> "tool-call", text |-> <<>>, toolCallId |-> tid]
ToolResultPart(tid) == [type |-> "tool-result", text |-> <<>>, toolCallId |-> tid]

\* ai: convertToCoreMessages. A user message keeps role and text; an assistant
\* message with tool invocations becomes an assistant message carrying the
\* calls followed by a tool message carrying the results.
ConvertOne(m) ==
    IF m.role = "assistant" /\ m.toolInvocations > 0
    THEN << [role |-> "assistant",
             content |-> <<TextPart(m.content), ToolCallPart(m.toolInvocations)>>],
            [role |-> "tool", content |-> <<ToolResultPart(m.toolInvocations)>>] >>
    ELSE << [role |-> m.role, content |-> <<TextPart(m.content)>>] >>

RECURSIVE convertToCoreMessages(_)
convertToCoreMessages(messages) ==
    IF messages = <<>> THEN <<>>
    ELSE ConvertOne(Head(messages)) \o convertToCoreMessages(Tail(messages))

IsUser(m) == m.role = "user"

\* lib/utils: getMostRecentUserMessage -- the last user-role message, if any
getMostRecentUserMessage(coreMessages) ==
    LET userMessages == SelectSeq(coreMessages, IsUser)
    IN IF userMessages = <<>> THEN <<>> ELSE <<userMessages[Len(userMessages)]>>

\* app/(chat)/actions: generateTitleFromUserMessage -- a title derived from the message
generateTitleFromUserMessage(message) == <<"title">> \o message.content[1].text

\* route.ts:87  !session || !session.user || !session.user.id
PostSessionInvalidNoIdCheck(session) == session \in {"none", "nouser"}

PostSessionInvalid(session) == session \in {"none", "nouser", "noid"}

\* route.ts:560  !session || !session.user
DeleteSessionInvalid(session) == session \in {"none", "nouser"}

\* route.ts:92  models.find(model => model.id === modelId)
FindModelWithFallback(modelId) == IF modelId \in models THEN <<modelId>> ELSE <<"gpt-4o-mini">>

FindModel(modelId) == IF modelId \in models THEN <<modelId>> ELSE <<>>

---------------------------------------------------------------------------
(* Persistence layer (lib/db/queries) *)

getChatById(id) == IF id \in DOMAIN chats THEN <<chats[id]>> ELSE <<>>

\* the rows of a chat go with it
ChatsWithout(id) == [c \in DOMAIN chats \ {id} |-> chats[c]]
MsgsWithout(id) == {m \in msgs : m.chatId # id}

getDocumentById(id) == IF id \in DOMAIN docs THEN <<docs[id]>> ELSE <<>>

\* the call is noted in the invocation's log with the channel length at the call
DbOp(q, op, id, chat, user, text) ==
    [q EXCEPT !.ops = Append(@, [op |-> op, id |-> id, chat |-> chat, user |-> user,
                                 text |-> text, at |-> Len(q.channel)])]

---------------------------------------------------------------------------
(* Handler invocations *)

\* budget: the tool calls the model makes in the turn at most
NoTurn ==
    [step |-> 0, seg |-> "none", ncalls |-> 0, budget |-> MaxToolCalls, texts |-> 0,
     stepCalls |-> <<>>, stepResults |-> <<>>, stepFailed |-> <<>>,
     stepText |-> <<>>, running |-> <<>>, response |-> <<>>, rows |-> <<>>]

IdleReq ==
    [pc |-> "idle", method |-> "none", session |-> "none", id |-> NoId,
     messages |-> <<>>, modelId |-> "none", status |-> 0, chat |-> <<>>,
     userMessage |-> <<>>, userMessageId |-> 0, channel |-> <<>>, ops |-> <<>>,
     turn |-> NoTurn]

PostReq(session, id, messages, modelId) ==
    [IdleReq EXCEPT !.pc = "auth", !.method = "POST", !.session = session,
                    !.id = id, !.messages = messages, !.modelId = modelId]

DeleteReq(session, id) ==
    [IdleReq EXCEPT !.pc = "dAuth", !.method = "DELETE", !.session = session, !.id = id]

Respond(q, status) == [q EXCEPT !.pc = "done", !.status = status]

Event(type, id, text, tool) == [type |-> type, id |-> id, text |-> text, tool |-> tool]

---------------------------------------------------------------------------
(* Initial states *)

\* part_001:29-68  the component is not mounted and has made no call
NoWidget ==
    [mounted |-> FALSE, session |-> "none", id |-> "none", modelId |-> "none",
     inlineChatId |-> NoId, messages |-> <<>>, ids |-> <<>>, posts |-> 0, calls |-> <<>>]

EmptyDb ==
    /\ chats = <<>>
    /\ msgs = {}
    /\ docs = <<>>
    /\ suggs = {}
    /\ nextId = 1
    /\ deleted = {}

Init ==
    /\ EmptyDb
    /\ widget = NoWidget
    /\ reqs = [r \in Slots |-> IdleReq]
    /\ nreq = 0

\* one POST request has arrived at an empty store
InitTurn ==
    /\ EmptyDb
    /\ widget = NoWidget
    /\ \E session \in Sessions \ {"u2"}, messages \in TurnMessagesInputs,
          modelId \in ModelIdInputs :
          reqs = [r \in Slots |-> IF r = 1 THEN PostReq(session, 1, messages, modelId)
                                  ELSE IdleReq]
    /\ nreq = 1

\* one POST request of a signed-in user has arrived at an empty store; the
\* model may make up to MaxStepCalls tool calls in its turn
InitSteps ==
    /\ EmptyDb
    /\ widget = NoWidget
    /\ \E messages \in SystemMessagesInputs \ {<<>>} :
          reqs = [r \in Slots |->
                    IF r = 1
                    THEN [PostReq("u1", 1, messages, "gpt-4o") EXCEPT !.turn.budget = MaxStepCalls]
                    ELSE IdleReq]
    /\ nreq = 1

\* one POST request, whatever it holds, has arrived at an empty store
InitPost ==
    /\ EmptyDb
    /\ widget = NoWidget
    /\ \E session \in Sessions, id \in ChatIds, messages \in MessagesInputs,
          modelId \in ModelIdInputs :
          reqs = [r \in Slots |-> IF r = 1 THEN PostReq(session, id, messages, modelId)
                                  ELSE IdleReq]
    /\ nreq = 1

---------------------------------------------------------------------------
(* Arrival and departure of requests *)

FirstIdle(r) == reqs[r].pc = "idle" /\ \A s \in Slots : s < r => reqs[s].pc # "idle"

ReceivePost(r) ==
    /\ FirstIdle(r)
    /\ nreq < MaxRequests
    /\ \E session \in Sessions, id \in ChatIds, messages \in SystemMessagesInputs,
          modelId \in ModelIdInputs :
          reqs' = [reqs EXCEPT ![r] = PostReq(session, id, messages, modelId)]
    /\ nreq' = nreq + 1
    /\ UNCHANGED <<chats, msgs, docs, suggs, nextId, deleted>>

ReceiveDelete(r) ==
    /\ FirstIdle(r)
    /\ nreq < MaxRequests
    /\ \E session \in Sessions, id \in ChatIds \cup {NoId} :
          reqs' = [reqs EXCEPT ![r] = DeleteReq(session, id)]
    /\ nreq' = nreq + 1
    /\ UNCHANGED <<chats, msgs, docs, suggs, nextId, deleted>>

\* the response has been delivered and the invocation is gone
Retire(r) ==
    /\ reqs[r].pc = "done"
    /\ reqs' = [reqs EXCEPT ![r] = IdleReq]
    /\ UNCHANGED <<chats, msgs, docs, suggs, nextId, nreq, deleted>>

---------------------------------------------------------------------------
(* POST, route.ts:70-128 *)

\* route.ts:85-107 with the session check reduced to that of DELETE
PostValidateNoIdCheck(r) ==
    LET q == reqs[r]
        userMessage == getMostRecentUserMessage(convertToCoreMessages(q.messages))
    IN /\ q.pc = "auth"
       /\ reqs' = [reqs EXCEPT ![r] =
             IF PostSessionInvalidNoIdCheck(q.session) THEN Respond(q, 401)
             ELSE IF FindModel(q.modelId) = <<>> THEN Respond(q, 404)
             ELSE IF userMessage = <<>> THEN Respond(q, 400)
             ELSE [q EXCEPT !.pc = "getChat", !.userMessage = userMessage]]
       /\ UNCHANGED <<chats, msgs, docs, suggs, nextId, nreq, deleted>>

\* route.ts:85-107 with a default model in place of the 404
PostValidateFallbackModel(r) ==
    LET q == reqs[r]
        userMessage == getMostRecentUserMessage(convertToCoreMessages(q.messages))
    IN /\ q.pc = "auth"
       /\ reqs' = [reqs EXCEPT ![r] =
             IF PostSessionInvalid(q.session) THEN Respond(q, 401)
             ELSE IF FindModelWithFallback(q.modelId) = <<>> THEN Respond(q, 404)
             ELSE IF userMessage = <<>> THEN Respond(q, 400)
             ELSE [q EXCEPT !.pc = "getChat", !.userMessage = userMessage]]
       /\ UNCHANGED <<chats, msgs, docs, suggs, nextId, nreq, deleted>>

\* route.ts:85-107 with the user-message check left out
PostValidateNoUserCheck(r) ==
    LET q == reqs[r]
        userMessage == getMostRecentUserMessage(convertToCoreMessages(q.messages))
    IN /\ q.pc = "auth"
       /\ reqs' = [reqs EXCEPT ![r] =
             IF PostSessionInvalid(q.session) THEN Respond(q, 401)
             ELSE IF FindModel(q.modelId) = <<>> THEN Respond(q, 404)
             ELSE [q EXCEPT !.pc = "getChat",
                            !.userMessage = IF userMessage = <<>>
                                            THEN <<[role |-> "user", content |-> <<TextPart(<<>>)>>]>>
                                            ELSE userMessage]]
       /\ UNCHANGED <<chats, msgs, docs, suggs, nextId, nreq, deleted>>

\* route.ts:85-107 with the model looked up before the session is checked
PostValidateModelFirst(r) ==
    LET q == reqs[r]
        userMessage == getMostRecentUserMessage(convertToCoreMessages(q.messages))
    IN /\ q.pc = "auth"
       /\ reqs' = [reqs EXCEPT ![r] =
             IF FindModel(q.modelId) = <<>> THEN Respond(q, 404)
             ELSE IF PostSessionInvalid(q.session) THEN Respond(q, 401)
             ELSE IF userMessage = <<>> THEN Respond(q, 400)
             ELSE [q EXCEPT !.pc = "getChat", !.userMessage = userMessage]]
       /\ UNCHANGED <<chats, msgs, docs, suggs, nextId, nreq, deleted>>

\* route.ts:85-107: session, then model, then user message
PostValidate(r) ==
    LET q == reqs[r]
        userMessage == getMostRecentUserMessage(convertToCoreMessages(q.messages))
    IN /\ q.pc = "auth"
       /\ reqs' = [reqs EXCEPT ![r] =
             IF PostSessionInvalid(q.session) THEN Respond(q, 401)
             ELSE IF FindModel(q.modelId) = <<>> THEN Respond(q, 404)
             ELSE IF userMessage = <<>> THEN Respond(q, 400)
             ELSE [q EXCEPT !.pc = "getChat", !.userMessage = userMessage]]
       /\ UNCHANGED <<chats, msgs, docs, suggs, nextId, nreq, deleted>>

\* route.ts:110-111 with every chat taken as existing
PostGetChatNoCreate(r) ==
    LET q == reqs[r]
        chat == getChatById(q.id)
    IN /\ q.pc = "getChat"
       /\ reqs' = [reqs EXCEPT ![r] =
             [DbOp(q, "getChatById", q.id, q.id, "", <<>>)
                 EXCEPT !.chat = chat, !.pc = "saveUserMessage"]]
       /\ UNCHANGED <<chats, msgs, docs, suggs, nextId, nreq, deleted>>

\* route.ts:110-111  const chat = await getChatById({ id }); if (!chat) ...
PostGetChat(r) ==
    LET q == reqs[r]
        chat == getChatById(q.id)
    IN /\ q.pc = "getChat"
       /\ reqs' = [reqs EXCEPT ![r] =
             [DbOp(q, "getChatById", q.id, q.id, "", <<>>)
                 EXCEPT !.chat = chat,
                        !.pc = IF chat = <<>> THEN "saveChat" ELSE "saveUserMessage"]]
       /\ UNCHANGED <<chats, msgs, docs, suggs, nextId, nreq, deleted>>

\* route.ts:112-113  title, then saveChat({ id, userId: session.user.id, title }).
\* The Chat table is keyed by id: inserting an id that is already there fails,
\* and the rejection leaves POST as a generic failure.
PostSaveChat(r) ==
    LET q == reqs[r]
        title == generateTitleFromUserMessage(q.userMessage[1])
    IN /\ q.pc = "saveChat"
       /\ IF q.id \in DOMAIN chats
          THEN /\ reqs' = [reqs EXCEPT ![r] =
                     Respond(DbOp(q, "saveChat-rejected", q.id, q.id, q.session, title), 500)]
               /\ chats' = chats
          ELSE /\ chats' = [c \in DOMAIN chats \cup {q.id} |->
                               IF c = q.id THEN [userId |-> q.session, title |-> title]
                               ELSE chats[c]]
               /\ reqs' = [reqs EXCEPT ![r] =
                     [DbOp(q, "saveChat", q.id, q.id, q.session, title)
                         EXCEPT !.pc = "saveUserMessage"]]
       /\ UNCHANGED <<msgs, docs, suggs, nextId, nreq, deleted>>

\* route.ts:122-127  userMessageId = generateUUID(); saveMessages([{...userMessage, id, chatId}])
PostSaveUserMessage(r) ==
    LET q == reqs[r]
        content == q.userMessage[1].content
    IN /\ q.pc = "saveUserMessage"
       /\ msgs' = msgs \cup {[id |-> nextId, chatId |-> q.id, role |-> "user",
                              content |-> content]}
       /\ nextId' = nextId + 1
       /\ reqs' = [reqs EXCEPT ![r] =
             [DbOp(q, "saveMessages", nextId, q.id, "user", content[1].text)
                 EXCEPT !.userMessageId = nextId, !.pc = "execute"]]
       /\ UNCHANGED <<chats, docs, suggs, nreq, deleted>>

---------------------------------------------------------------------------
(* DELETE, route.ts:550-579 *)

\* route.ts:552-562  missing id -> 404, no session or no user -> 401
DeleteValidate(r) ==
    LET q == reqs[r]
    IN /\ q.pc = "dAuth"
       /\ reqs' = [reqs EXCEPT ![r] =
             IF q.id = NoId THEN Respond(q, 404)
             ELSE IF DeleteSessionInvalid(q.session) THEN Respond(q, 401)
             ELSE [q EXCEPT !.pc = "dGetChat"]]
       /\ UNCHANGED <<chats, msgs, docs, suggs, nextId, nreq, deleted>>

\* route.ts:566-569 with the ownership comparison left out
DeleteGetChatNoOwnerCheck(r) ==
    LET q == reqs[r]
        chat == getChatById(q.id)
        read == [DbOp(q, "getChatById", q.id, q.id, "", <<>>) EXCEPT !.chat = chat]
    IN /\ q.pc = "dGetChat"
       /\ reqs' = [reqs EXCEPT ![r] =
             IF chat = <<>> THEN Respond(read, 500)
             ELSE [read EXCEPT !.pc = "dDelete"]]
       /\ UNCHANGED <<chats, msgs, docs, suggs, nextId, nreq, deleted>>

\* route.ts:566-569  chat = await getChatById({ id }); chat.userId !== session.user.id -> 401.
\* For a missing row chat is undefined, chat.userId throws a TypeError, and the
\* catch of route.ts:574-578 answers 500.
DeleteGetChat(r) ==
    LET q == reqs[r]
        chat == getChatById(q.id)
        read == [DbOp(q, "getChatById", q.id, q.id, "", <<>>) EXCEPT !.chat = chat]
    IN /\ q.pc = "dGetChat"
       /\ reqs' = [reqs EXCEPT ![r] =
             IF chat = <<>> THEN Respond(read, 500)
             ELSE IF chat[1].userId # q.session THEN Respond(read, 401)
             ELSE [read EXCEPT !.pc = "dDelete"]]
       /\ UNCHANGED <<chats, msgs, docs, suggs, nextId, nreq, deleted>>

\* route.ts:572-573  await deleteChatById({ id }); 200
DeleteChatById(r) ==
    LET q == reqs[r]
    IN /\ q.pc = "dDelete"
       /\ chats' = ChatsWithout(q.id)
       /\ msgs' = MsgsWithout(q.id)
       /\ deleted' = IF q.id \in DOMAIN chats /\ chats[q.id].userId = q.session
                     THEN deleted \cup {<<q.id, q.session>>}
                     ELSE deleted
       /\ reqs' = [reqs EXCEPT ![r] =
             Respond(DbOp(q, "deleteChatById", q.id, q.id, q.session, <<>>), 200)]
       /\ UNCHANGED <<docs, suggs, nextId, nreq>>

---------------------------------------------------------------------------
(* The streaming turn, route.ts:130-541.  streamText reads the model's parts *)
(* one by one; on a tool-call part it invokes the tool's execute at once and *)
(* goes on reading, and a step ends when the model's parts have ended and    *)
(* every execution it started has settled.                                   *)

StreamPcs == {"stream", "onFinish", "saveResponse"}
Kinds == {"text", "code"}
Titles == {<<"t">>}
NoDoc == 0
DocIdArgs == DOMAIN docs \cup {NoDoc}       \* the document ids the model may name

Emit(q, events) == [q EXCEPT !.channel = @ \o events]

WithExec(q, t, e) ==
    LET run == q.turn.running
    IN [q EXCEPT !.turn.running = [x \in DOMAIN run \cup {t} |-> IF x = t THEN e ELSE run[x]]]

WithoutExec(q, t) ==
    LET run == q.turn.running
    IN [q EXCEPT !.turn.running = [x \in DOMAIN run \ {t} |-> run[x]]]

Exec(tool, pc, title, kind, docId) ==
    [tool |-> tool, pc |-> pc, title |-> title, kind |-> kind, docId |-> docId,
     draft |-> <<>>, doc |-> <<>>, n |-> 0, items |-> <<>>]

Generating(r) == reqs[r].pc = "stream" /\ reqs[r].turn.seg = "gen"

ExecAt(r, t, tool, pc) ==
    /\ reqs[r].pc = "stream"
    /\ t \in DOMAIN reqs[r].turn.running
    /\ reqs[r].turn.running[t].tool = tool
    /\ reqs[r].turn.running[t].pc = pc

\* the tool-call part of the model goes to the channel and the call is counted
BeginCall(q, tool) ==
    LET t == q.turn.ncalls + 1
    IN [Emit(q, <<Event("tool-call", 0, <<tool>>, t)>>)
           EXCEPT !.turn.ncalls = t, !.turn.stepCalls = Append(@, t)]

\* the value execute returns goes to the channel as the tool-result part
ToolResult(q, t, text) ==
    [WithoutExec(Emit(q, <<Event("tool-result", 0, text, t)>>), t)
        EXCEPT !.turn.stepResults = Append(@, t)]

\* route.ts:131-148  execute: writeData(user-message-id), then streamText starts
PostExecuteNoUserMessageId(r) ==
    LET q == reqs[r]
    IN /\ q.pc = "execute"
       /\ Cardinality({s \in Slots : reqs[s].pc \in StreamPcs}) < MaxStreams
       /\ reqs' = [reqs EXCEPT ![r] =
             [q EXCEPT !.pc = "stream", !.status = 200,
                       !.turn = [q.turn EXCEPT !.step = 1, !.seg = "gen"]]]
       /\ UNCHANGED <<chats, msgs, docs, suggs, nextId, nreq, deleted>>

PostExecute(r) ==
    LET q == reqs[r]
    IN /\ q.pc = "execute"
       /\ Cardinality({s \in Slots : reqs[s].pc \in StreamPcs}) < MaxStreams
       /\ reqs' = [reqs EXCEPT ![r] =
             [Emit(q, <<Event("user-message-id", q.userMessageId, <<>>, 0)>>)
                 EXCEPT !.pc = "stream", !.status = 200,
                        !.turn = [q.turn EXCEPT !.step = 1, !.seg = "gen"]]]
       /\ UNCHANGED <<chats, msgs, docs, suggs, nextId, nreq, deleted>>

\* a text part of the model, forwarded by mergeIntoDataStream (route.ts:538)
ModelText(r) ==
    LET q == reqs[r]
    IN /\ Generating(r)
       /\ q.turn.texts < MaxTexts
       /\ reqs' = [reqs EXCEPT ![r] =
             [Emit(q, <<Event("model-text", 0, <<"m">>, 0)>>)
                 EXCEPT !.turn.texts = @ + 1, !.turn.stepText = @ \o <<"m">>]]
       /\ UNCHANGED <<chats, msgs, docs, suggs, nextId, nreq, deleted>>

\* the model's parts of this step have ended
ModelFinish(r) ==
    /\ Generating(r)
    /\ reqs' = [reqs EXCEPT ![r].turn.seg = "wait"]
    /\ UNCHANGED <<chats, msgs, docs, suggs, nextId, nreq, deleted>>

---------------------------------------------------------------------------
(* getWeather, route.ts:153-169 *)

CallGetWeather(r) ==
    LET q == reqs[r]
        b == BeginCall(q, "getWeather")
    IN /\ Generating(r)
       /\ q.turn.ncalls < q.turn.budget
       /\ reqs' = [reqs EXCEPT ![r] =
             WithExec(b, b.turn.ncalls, Exec("getWeather", "fetch", <<>>, "", NoDoc))]
       /\ UNCHANGED <<chats, msgs, docs, suggs, nextId, nreq, deleted>>

\* route.ts:161-167  the fetch answers, or it (or response.json()) throws
GetWeatherSettle(r, t) ==
    LET q == reqs[r]
    IN /\ ExecAt(r, t, "getWeather", "fetch")
       /\ \/ reqs' = [reqs EXCEPT ![r] = ToolResult(q, t, <<"weather">>)]
          \/ reqs' = [reqs EXCEPT ![r] =
                [WithoutExec(Emit(q, <<Event("error", 0, <<>>, t)>>), t)
                    EXCEPT !.turn.stepFailed = Append(@, t)]]
       /\ UNCHANGED <<chats, msgs, docs, suggs, nextId, nreq, deleted>>

---------------------------------------------------------------------------
(* The sub-generation loops shared by createDocument and updateDocument *)

\* the parts a sub-generation may yield next: streamText yields text deltas and
\* other parts; streamObject yields the partial object again and again, its
\* code field growing from absent/empty, between other parts
SubParts(e) ==
    IF e.kind = "text"
    THEN {[type |-> "text-delta", text |-> <<"x">>], [type |-> "step-finish", text |-> <<>>]}
    ELSE {[type |-> "object", text |-> e.draft \o <<"x">>],
          [type |-> "object", text |-> e.draft],
          [type |-> "text-delta", text |-> <<"x">>]}

\* route.ts:217-235, 253-269 with draftText += code in place of draftText = code
ConsumePartAppendCode(e, part, t) ==
    IF e.kind = "text" /\ part.type = "text-delta"
    THEN [draft |-> e.draft \o part.text,
          events |-> <<Event("text-delta", 0, part.text, t)>>]
    ELSE IF e.kind = "code" /\ part.type = "object" /\ part.text # <<>>
    THEN [draft |-> e.draft \o part.text,
          events |-> <<Event("code-delta", 0, part.text, t)>>]
    ELSE [draft |-> e.draft, events |-> <<>>]

\* route.ts:217-235 (text: draftText += textDelta) and 253-269 (code: if (code)
\* { writeData(code-delta); draftText = code })
ConsumePart(e, part, t) ==
    IF e.kind = "text" /\ part.type = "text-delta"
    THEN [draft |-> e.draft \o part.text,
          events |-> <<Event("text-delta", 0, part.text, t)>>]
    ELSE IF e.kind = "code" /\ part.type = "object" /\ part.text # <<>>
    THEN [draft |-> part.text,
          events |-> <<Event("code-delta", 0, part.text, t)>>]
    ELSE [draft |-> e.draft, events |-> <<>>]

\* one iteration of for await (const delta of fullStream)
LoopStep(q, t, part) ==
    LET e == q.turn.running[t]
        c == ConsumePart(e, part, t)
    IN WithExec(Emit(q, c.events), t, [e EXCEPT !.draft = c.draft, !.n = @ + 1])

\* lib/db/queries: saveDocument writes the row of that id
SaveDocument(id, title, kind, content, userId) ==
    docs' = [d \in DOMAIN docs \cup {id} |->
                IF d = id THEN [title |-> title, kind |-> kind, content |-> content,
                                userId |-> userId, createdAt |-> nextId]
                ELSE docs[d]]

---------------------------------------------------------------------------
(* createDocument, route.ts:175-294 *)

\* route.ts:188-203 without the clear event
createDocumentHeadNoClear(t, id, title, kind) ==
    << Event("id", id, <<>>, t), Event("title", 0, title, t),
       Event("kind", 0, <<kind>>, t) >>

\* route.ts:188-203  writeData id, title, kind, clear
createDocumentHead(t, id, title, kind) ==
    << Event("id", id, <<>>, t), Event("title", 0, title, t),
       Event("kind", 0, <<kind>>, t), Event("clear", 0, <<>>, t) >>

\* route.ts:182-214/250  the part of execute that runs before the loop first waits
CallCreateDocument(r) ==
    LET q == reqs[r]
        b == BeginCall(q, "createDocument")
        t == b.turn.ncalls
    IN /\ Generating(r)
       /\ q.turn.ncalls < q.turn.budget
       /\ \E title \in Titles, kind \in Kinds :
             reqs' = [reqs EXCEPT ![r] =
                WithExec(Emit(b, createDocumentHead(t, nextId, title, kind)), t,
                         Exec("createDocument", "stream", title, kind, nextId))]
       /\ nextId' = nextId + 1
       /\ UNCHANGED <<chats, msgs, docs, suggs, nreq, deleted>>

CreateDocumentDelta(r, t) ==
    LET q == reqs[r]
    IN /\ ExecAt(r, t, "createDocument", "stream")
       /\ q.turn.running[t].n < MaxDeltas
       /\ \E part \in SubParts(q.turn.running[t]) :
             reqs' = [reqs EXCEPT ![r] = LoopStep(q, t, part)]
       /\ UNCHANGED <<chats, msgs, docs, suggs, nextId, nreq, deleted>>

\* route.ts:238, 272  the sub-generation has ended: writeData(finish)
CreateDocumentFinish(r, t) ==
    LET q == reqs[r]
    IN /\ ExecAt(r, t, "createDocument", "stream")
       /\ reqs' = [reqs EXCEPT ![r] =
             WithExec(Emit(q, <<Event("finish", 0, <<>>, t)>>), t,
                      [q.turn.running[t] EXCEPT !.pc = "save"])]
       /\ UNCHANGED <<chats, msgs, docs, suggs, nextId, nreq, deleted>>

\* route.ts:276-292  saveDocument, then the result
CreateDocumentSave(r, t) ==
    LET q == reqs[r]
        e == q.turn.running[t]
    IN /\ ExecAt(r, t, "createDocument", "save")
       /\ SaveDocument(e.docId, e.title, e.kind, e.draft, q.session)
       /\ nextId' = nextId + 1
       /\ reqs' = [reqs EXCEPT ![r] =
             ToolResult(DbOp(q, "saveDocument", e.docId, 0, q.session, e.draft), t, <<"created">>)]
       /\ UNCHANGED <<chats, msgs, suggs, nreq, deleted>>

---------------------------------------------------------------------------
(* updateDocument, route.ts:299-402 *)

CallUpdateDocument(r) ==
    LET q == reqs[r]
        b == BeginCall(q, "updateDocument")
    IN /\ Generating(r)
       /\ q.turn.ncalls < q.turn.budget
       /\ \E id \in DocIdArgs :
             reqs' = [reqs EXCEPT ![r] =
                WithExec(b, b.turn.ncalls, Exec("updateDocument", "fetch", <<>>, "", id))]
       /\ UNCHANGED <<chats, msgs, docs, suggs, nextId, nreq, deleted>>

\* route.ts:308-322  getDocumentById; absent -> { error }; else writeData(clear, title)
UpdateDocumentFetch(r, t) ==
    LET q == reqs[r]
        e == q.turn.running[t]
        document == getDocumentById(e.docId)
        read == DbOp(q, "getDocumentById", e.docId, 0, "", <<>>)
    IN /\ ExecAt(r, t, "updateDocument", "fetch")
       /\ reqs' = [reqs EXCEPT ![r] =
             IF document = <<>> THEN ToolResult(read, t, <<"error">>)
             ELSE WithExec(Emit(read, <<Event("clear", 0, document[1].title, t)>>), t,
                           [e EXCEPT !.pc = "stream", !.doc = document,
                                     !.title = document[1].title,
                                     !.kind = document[1].kind])]
       /\ UNCHANGED <<chats, msgs, docs, suggs, nextId, nreq, deleted>>

UpdateDocumentDelta(r, t) ==
    LET q == reqs[r]
    IN /\ ExecAt(r, t, "updateDocument", "stream")
       /\ q.turn.running[t].n < MaxDeltas
       /\ \E part \in SubParts(q.turn.running[t]) :
             reqs' = [reqs EXCEPT ![r] = LoopStep(q, t, part)]
       /\ UNCHANGED <<chats, msgs, docs, suggs, nextId, nreq, deleted>>

\* route.ts:353, 382
UpdateDocumentFinish(r, t) ==
    LET q == reqs[r]
    IN /\ ExecAt(r, t, "updateDocument", "stream")
       /\ reqs' = [reqs EXCEPT ![r] =
             WithExec(Emit(q, <<Event("finish", 0, <<>>, t)>>), t,
                      [q.turn.running[t] EXCEPT !.pc = "save"])]
       /\ UNCHANGED <<chats, msgs, docs, suggs, nextId, nreq, deleted>>

\* route.ts:385-400 with content: currentContent in place of content: draftText
UpdateDocumentSaveCurrentContent(r, t) ==
    LET q == reqs[r]
        e == q.turn.running[t]
    IN /\ ExecAt(r, t, "updateDocument", "save")
       /\ SaveDocument(e.docId, e.doc[1].title, e.doc[1].kind, e.doc[1].content, q.session)
       /\ nextId' = nextId + 1
       /\ reqs' = [reqs EXCEPT ![r] =
             ToolResult(DbOp(q, "saveDocument", e.docId, 0, q.session, e.doc[1].content),
                        t, <<"updated">>)]
       /\ UNCHANGED <<chats, msgs, suggs, nreq, deleted>>

\* route.ts:385-400
UpdateDocumentSave(r, t) ==
    LET q == reqs[r]
        e == q.turn.running[t]
    IN /\ ExecAt(r, t, "updateDocument", "save")
       /\ SaveDocument(e.docId, e.doc[1].title, e.doc[1].kind, e.draft, q.session)
       /\ nextId' = nextId + 1
       /\ reqs' = [reqs EXCEPT ![r] =
             ToolResult(DbOp(q, "saveDocument", e.docId, 0, q.session, e.draft), t, <<"updated">>)]
       /\ UNCHANGED <<chats, msgs, suggs, nreq, deleted>>

---------------------------------------------------------------------------
(* requestSuggestions, route.ts:407-484 *)

CallRequestSuggestions(r) ==
    LET q == reqs[r]
        b == BeginCall(q, "requestSuggestions")
    IN /\ Generating(r)
       /\ q.turn.ncalls < q.turn.budget
       /\ \E documentId \in DocIdArgs :
             reqs' = [reqs EXCEPT ![r] =
                WithExec(b, b.turn.ncalls,
                         Exec("requestSuggestions", "fetch", <<>>, "", documentId))]
       /\ UNCHANGED <<chats, msgs, docs, suggs, nextId, nreq, deleted>>

\* route.ts:415-421 without the !document.content half of the condition
RequestSuggestionsFetchAnyContent(r, t) ==
    LET q == reqs[r]
        e == q.turn.running[t]
        document == getDocumentById(e.docId)
        read == DbOp(q, "getDocumentById", e.docId, 0, "", <<>>)
    IN /\ ExecAt(r, t, "requestSuggestions", "fetch")
       /\ reqs' = [reqs EXCEPT ![r] =
             IF document = <<>>
             THEN ToolResult(read, t, <<"error">>)
             ELSE WithExec(read, t, [e EXCEPT !.pc = "stream", !.doc = document])]
       /\ UNCHANGED <<chats, msgs, docs, suggs, nextId, nreq, deleted>>

\* route.ts:415-421  absent or empty document -> { error }
RequestSuggestionsFetch(r, t) ==
    LET q == reqs[r]
        e == q.turn.running[t]
        document == getDocumentById(e.docId)
        read == DbOp(q, "getDocumentById", e.docId, 0, "", <<>>)
    IN /\ ExecAt(r, t, "requestSuggestions", "fetch")
       /\ reqs' = [reqs EXCEPT ![r] =
             IF document = <<>> \/ document[1].content = <<>>
             THEN ToolResult(read, t, <<"error">>)
             ELSE WithExec(read, t, [e EXCEPT !.pc = "stream", !.doc = document])]
       /\ UNCHANGED <<chats, msgs, docs, suggs, nextId, nreq, deleted>>

\* route.ts:446-462 without the writeData of route.ts:456-459
RequestSuggestionsElementUnwritten(r, t) ==
    LET q == reqs[r]
        e == q.turn.running[t]
        suggestion == [id |-> nextId, documentId |-> e.docId, originalText |-> <<"o">>,
                       suggestedText |-> <<"s">>, description |-> <<"d">>,
                       isResolved |-> FALSE]
    IN /\ ExecAt(r, t, "requestSuggestions", "stream")
       /\ e.n < MaxDeltas
       /\ reqs' = [reqs EXCEPT ![r] =
             WithExec(q, t, [e EXCEPT !.n = @ + 1, !.items = Append(@, suggestion)])]
       /\ nextId' = nextId + 1
       /\ UNCHANGED <<chats, msgs, docs, suggs, nreq, deleted>>

\* route.ts:446-462  one element: a suggestion with a fresh id, written and kept
RequestSuggestionsElement(r, t) ==
    LET q == reqs[r]
        e == q.turn.running[t]
        suggestion == [id |-> nextId, documentId |-> e.docId, originalText |-> <<"o">>,
                       suggestedText |-> <<"s">>, description |-> <<"d">>,
                       isResolved |-> FALSE]
    IN /\ ExecAt(r, t, "requestSuggestions", "stream")
       /\ e.n < MaxDeltas
       /\ reqs' = [reqs EXCEPT ![r] =
             WithExec(Emit(q, <<Event("suggestion", suggestion.id, suggestion.originalText, t)>>),
                      t, [e EXCEPT !.n = @ + 1, !.items = Append(@, suggestion)])]
       /\ nextId' = nextId + 1
       /\ UNCHANGED <<chats, msgs, docs, suggs, nreq, deleted>>

\* route.ts:464-482  the elements have ended: saveSuggestions in one batch, then the result
RequestSuggestionsSave(r, t) ==
    LET q == reqs[r]
        e == q.turn.running[t]
        rows == {[suggestion |-> e.items[i], userId |-> q.session,
                  documentCreatedAt |-> e.doc[1].createdAt] : i \in DOMAIN e.items}
    IN /\ ExecAt(r, t, "requestSuggestions", "stream")
       /\ suggs' = suggs \cup rows
       /\ reqs' = [reqs EXCEPT ![r] =
             ToolResult(DbOp(q, "saveSuggestions", e.docId, 0, q.session, <<>>), t, <<"suggested">>)]
       /\ UNCHANGED <<chats, msgs, docs, nextId, nreq, deleted>>

---------------------------------------------------------------------------
(* Steps of the turn and its completion, route.ts:142-147, 491-530 *)

RECURSIVE CallParts(_)
CallParts(tids) ==
    IF tids = <<>> THEN <<>> ELSE <<ToolCallPart(Head(tids))>> \o CallParts(Tail(tids))

RECURSIVE ResultParts(_)
ResultParts(tids) ==
    IF tids = <<>> THEN <<>> ELSE <<ToolResultPart(Head(tids))>> \o ResultParts(Tail(tids))

\* the response messages of one step: the assistant message (its text, its tool
\* calls) and, when a tool returned, the tool message with the results
StepMessages(turn) ==
    << [role |-> "assistant",
        content |-> <<TextPart(turn.stepText)>> \o CallParts(turn.stepCalls)] >>
    \o (IF turn.stepResults = <<>> THEN <<>>
        ELSE << [role |-> "tool", content |-> ResultParts(turn.stepResults)] >>)

\* route.ts:142-148 without maxSteps: 5
StepEndUncapped(r) ==
    LET q == reqs[r]
        turn == q.turn
        response == turn.response \o StepMessages(turn)
    IN /\ q.pc = "stream"
       /\ turn.seg = "wait"
       /\ DOMAIN turn.running = {}
       /\ reqs' = [reqs EXCEPT ![r] =
             IF /\ turn.stepCalls # <<>>
                /\ Len(turn.stepResults) = Len(turn.stepCalls)
             THEN [q EXCEPT !.turn = [turn EXCEPT !.step = @ + 1, !.seg = "gen",
                                                  !.texts = 0, !.stepText = <<>>,
                                                  !.stepCalls = <<>>, !.stepResults = <<>>,
                                                  !.stepFailed = <<>>,
                                                  !.response = response]]
             ELSE [q EXCEPT !.pc = "onFinish", !.turn.seg = "ended",
                            !.turn.response = response]]
       /\ UNCHANGED <<chats, msgs, docs, suggs, nextId, nreq, deleted>>

\* route.ts:146  maxSteps: 5 -- another step follows when every call of this
\* step has its result and fewer than maxSteps steps have run
StepEnd(r) ==
    LET q == reqs[r]
        turn == q.turn
        response == turn.response \o StepMessages(turn)
    IN /\ q.pc = "stream"
       /\ turn.seg = "wait"
       /\ DOMAIN turn.running = {}
       /\ reqs' = [reqs EXCEPT ![r] =
             IF /\ turn.stepCalls # <<>>
                /\ Len(turn.stepResults) = Len(turn.stepCalls)
                /\ turn.step < maxSteps
             THEN [q EXCEPT !.turn = [turn EXCEPT !.step = @ + 1, !.seg = "gen",
                                                  !.texts = 0, !.stepText = <<>>,
                                                  !.stepCalls = <<>>, !.stepResults = <<>>,
                                                  !.stepFailed = <<>>,
                                                  !.response = response]]
             ELSE [q EXCEPT !.pc = "onFinish", !.turn.seg = "ended",
                            !.turn.response = response]]
       /\ UNCHANGED <<chats, msgs, docs, suggs, nextId, nreq, deleted>>

\* lib/utils: sanitizeResponseMessages -- a tool call without result is taken
\* out of its assistant message, so is empty text, and a message left without
\* content is dropped
ToolResultIds(messages) ==
    {messages[i].content[j].toolCallId :
        <<i, j>> \in {<<a, b>> \in (DOMAIN messages) \X (1..8) :
                         /\ messages[a].role = "tool"
                         /\ b \in DOMAIN messages[a].content
                         /\ messages[a].content[b].type = "tool-result"}}

SanitizeOne(m, ids) ==
    LET Keep(p) == IF p.type = "tool-call" THEN p.toolCallId \in ids
                   ELSE IF p.type = "text" THEN p.text # <<>>
                   ELSE TRUE
    IN IF m.role = "assistant" THEN [m EXCEPT !.content = SelectSeq(@, Keep)] ELSE m

sanitizeResponseMessages(messages) ==
    LET ids == ToolResultIds(messages)
        cleaned == [i \in DOMAIN messages |-> SanitizeOne(messages[i], ids)]
        NotEmpty(m) == m.content # <<>>
    IN SelectSeq(cleaned, NotEmpty)

\* route.ts:509-513 without the condition on message.role
RECURSIVE AnnotationsForAll(_)
AnnotationsForAll(rows) ==
    IF rows = <<>> THEN <<>>
    ELSE <<Event("message-annotation", Head(rows).id, <<>>, 0)>>
         \o AnnotationsForAll(Tail(rows))

\* route.ts:509-513  writeMessageAnnotation for the assistant messages
RECURSIVE Annotations(_)
Annotations(rows) ==
    IF rows = <<>> THEN <<>>
    ELSE (IF Head(rows).role = "assistant"
          THEN <<Event("message-annotation", Head(rows).id, <<>>, 0)>> ELSE <<>>)
         \o Annotations(Tail(rows))

\* route.ts:496-525  every sanitized message gets a fresh id, an assistant
\* message is announced with writeMessageAnnotation, and saveMessages is called
OnFinish(r) ==
    LET q == reqs[r]
        sanitized == sanitizeResponseMessages(q.turn.response)
        rows == [i \in DOMAIN sanitized |->
                    [id |-> nextId + i - 1, chatId |-> q.id,
                     role |-> sanitized[i].role, content |-> sanitized[i].content]]
    IN /\ q.pc = "onFinish"
       /\ nextId' = nextId + Len(rows)
       /\ reqs' = [reqs EXCEPT ![r] =
             [Emit(q, Annotations(rows)) EXCEPT !.pc = "saveResponse", !.turn.rows = rows]]
       /\ UNCHANGED <<chats, msgs, docs, suggs, nreq, deleted>>

\* route.ts:503 without the try / catch of route.ts:497, 526-528: the rejection
\* of saveMessages leaves onFinish and fails the stream
OnFinishSaveUncaught(r) ==
    LET q == reqs[r]
        rows == q.turn.rows
    IN /\ q.pc = "saveResponse"
       /\ \/ /\ msgs' = msgs \cup {rows[i] : i \in DOMAIN rows}
             /\ reqs' = [reqs EXCEPT ![r] =
                   [DbOp(q, "saveMessages", 0, q.id, "assistant", <<>>) EXCEPT !.pc = "done"]]
          \/ /\ msgs' = msgs
             /\ reqs' = [reqs EXCEPT ![r] =
                   [Emit(DbOp(q, "saveMessages-rejected", 0, q.id, "assistant", <<>>),
                         <<Event("error", 0, <<>>, 0)>>)
                       EXCEPT !.pc = "done"]]
       /\ UNCHANGED <<chats, docs, suggs, nextId, nreq, deleted>>

\* route.ts:503, 526-528  saveMessages stores the rows, or rejects and the catch logs it
OnFinishSave(r) ==
    LET q == reqs[r]
        rows == q.turn.rows
    IN /\ q.pc = "saveResponse"
       /\ \/ /\ msgs' = msgs \cup {rows[i] : i \in DOMAIN rows}
             /\ reqs' = [reqs EXCEPT ![r] =
                   [DbOp(q, "saveMessages", 0, q.id, "assistant", <<>>) EXCEPT !.pc = "done"]]
          \/ /\ msgs' = msgs
             /\ reqs' = [reqs EXCEPT ![r] =
                   [DbOp(q, "saveMessages-rejected", 0, q.id, "assistant", <<>>)
                       EXCEPT !.pc = "done"]]
       /\ UNCHANGED <<chats, docs, suggs, nextId, nreq, deleted>>

---------------------------------------------------------------------------
(* The inline chat, part_001.  The component generates a conversation id per *)
(* value of its id prop, submits through POST /api/chat under that id, and   *)
(* the cleanup of its effect calls DELETE /api/chat?id= and setMessages([]). *)

WidgetProps == {"p", "q"}                  \* values of the id prop
WidgetSessions == {"u1", "none"}           \* the browser is signed in or not
NoStatus == 0                              \* the call has not been answered
Failed == 999                              \* fetch rejected: no response arrived

Call(method, id, body) ==
    [method |-> method, id |-> id, body |-> body, slot |-> 0, status |-> NoStatus]

\* part_001:38  inlineChatId = useMemo(() => generateUUID(), [id])
FreshInlineChatId == Len(widget.ids) + 1

\* part_001:63-67  initialMessages
InitialMessages(initialValue) ==
    IF initialValue = <<>> THEN <<>>
    ELSE <<[role |-> "user", content |-> initialValue, toolInvocations |-> 0]>>

\* part_001:76-85 without the fetch
InlineChatCleanupNoDelete(w) == [w EXCEPT !.messages = <<>>]

\* part_001:76-85  the cleanup: fetch(DELETE) is not awaited, its promise is
\* dropped, and setMessages([]) follows at once
InlineChatCleanup(w) ==
    [w EXCEPT !.calls = Append(@, Call("DELETE", w.inlineChatId, <<>>)),
              !.messages = <<>>]

\* part_001:29-68  the component mounts
WidgetMount ==
    /\ ~widget.mounted
    /\ Len(widget.ids) < MaxWidgetIds
    /\ \E session \in WidgetSessions, id \in WidgetProps, modelId \in ModelIdInputs,
          initialValue \in {<<>>, <<"a">>} :
          widget' = [widget EXCEPT !.mounted = TRUE, !.session = session, !.id = id,
                                   !.modelId = modelId,
                                   !.inlineChatId = FreshInlineChatId,
                                   !.ids = Append(@, FreshInlineChatId),
                                   !.messages = InitialMessages(initialValue)]
    /\ UNCHANGED <<chats, msgs, docs, suggs, reqs, nextId, nreq, deleted>>

\* part_001:38, 75-87  the id prop changes: useMemo yields a new inlineChatId,
\* the effect's dependency has changed and the cleanup of the old effect runs
WidgetRekey ==
    /\ widget.mounted
    /\ Len(widget.ids) < MaxWidgetIds
    /\ \E id \in WidgetProps \ {widget.id} :
          widget' = [InlineChatCleanup(widget) EXCEPT
                        !.id = id,
                        !.inlineChatId = FreshInlineChatId,
                        !.ids = Append(@, FreshInlineChatId)]
    /\ UNCHANGED <<chats, msgs, docs, suggs, reqs, nextId, nreq, deleted>>

\* part_001:56-62, 148  handleSubmit: the message joins the local messages and
\* POST /api/chat is called with { id: inlineChatId, messages, modelId }
WidgetSubmit ==
    /\ widget.mounted
    /\ widget.posts < MaxWidgetPosts
    /\ \E content \in Contents :
          LET messages == Append(widget.messages,
                                 [role |-> "user", content |-> content, toolInvocations |-> 0])
          IN widget' = [widget EXCEPT
                           !.messages = messages,
                           !.posts = @ + 1,
                           !.calls = Append(@, Call("POST", widget.inlineChatId, messages))]
    /\ UNCHANGED <<chats, msgs, docs, suggs, reqs, nextId, nreq, deleted>>

\* part_001:75-87  the component unmounts: the cleanup runs
WidgetUnmount ==
    /\ widget.mounted
    /\ widget' = [InlineChatCleanup(widget) EXCEPT !.mounted = FALSE, !.inlineChatId = NoId]
    /\ UNCHANGED <<chats, msgs, docs, suggs, reqs, nextId, nreq, deleted>>

\* a call of the component reaches the server and a handler is invoked for it
WidgetCallArrives(r) ==
    /\ FirstIdle(r)
    /\ \E i \in DOMAIN widget.calls :
          LET c == widget.calls[i]
          IN /\ c.slot = 0 /\ c.status = NoStatus
             /\ reqs' = [reqs EXCEPT ![r] =
                   IF c.method = "DELETE" THEN DeleteReq(widget.session, c.id)
                   ELSE PostReq(widget.session, c.id, c.body, widget.modelId)]
             /\ widget' = [widget EXCEPT !.calls[i].slot = r]
    /\ UNCHANGED <<chats, msgs, docs, suggs, nextId, nreq, deleted>>

\* the response to a call arrives in the browser; part_001:78-80 attaches no
\* continuation to the promise of the DELETE
WidgetCallAnswered(r) ==
    /\ reqs[r].pc = "done"
    /\ \E i \in DOMAIN widget.calls :
          /\ widget.calls[i].slot = r /\ widget.calls[i].status = NoStatus
          /\ widget' = [widget EXCEPT !.calls[i].status = reqs[r].status]
    /\ reqs' = [reqs EXCEPT ![r] = IdleReq]
    /\ UNCHANGED <<chats, msgs, docs, suggs, nextId, nreq, deleted>>

\* a call never reaches the server: the promise of fetch rejects
WidgetCallFails ==
    /\ \E i \in DOMAIN widget.calls :
          /\ widget.calls[i].slot = 0 /\ widget.calls[i].status = NoStatus
          /\ widget' = [widget EXCEPT !.calls[i].status = Failed]
    /\ UNCHANGED <<chats, msgs, docs, suggs, reqs, nextId, nreq, deleted>>

---------------------------------------------------------------------------
(* Specifications *)

TurnIds == 1..MaxToolCalls

PostHandler(r) ==
    \/ PostValidate(r)
    \/ PostGetChat(r)
    \/ PostSaveChat(r)
    \/ PostSaveUserMessage(r)
    \/ PostExecute(r)

\* the turn as far as it does not depend on a tool
TextTurn(r) ==
    \/ ModelText(r)
    \/ ModelFinish(r)
    \/ StepEnd(r)
    \/ OnFinish(r)
    \/ OnFinishSave(r)

ToolTurn(r) ==
    \/ CallGetWeather(r)
    \/ CallCreateDocument(r)
    \/ CallUpdateDocument(r)
    \/ CallRequestSuggestions(r)
    \/ \E t \in TurnIds :
          \/ GetWeatherSettle(r, t)
          \/ CreateDocumentDelta(r, t)
          \/ CreateDocumentFinish(r, t)
          \/ CreateDocumentSave(r, t)
          \/ UpdateDocumentFetch(r, t)
          \/ UpdateDocumentDelta(r, t)
          \/ UpdateDocumentFinish(r, t)
          \/ UpdateDocumentSave(r, t)
          \/ RequestSuggestionsFetch(r, t)
          \/ RequestSuggestionsElement(r, t)
          \/ RequestSuggestionsSave(r, t)

DeleteHandler(r) ==
    \/ DeleteValidate(r)
    \/ DeleteGetChat(r)
    \/ DeleteChatById(r)

\* Requests of any users in any interleaving.  The model answers every turn
\* with text: the tools touch the channel, the Document and the Suggestion
\* table only, and are explored in SpecTurn.
Next ==
    /\ \E r \in Slots :
          \/ ReceivePost(r)
          \/ ReceiveDelete(r)
          \/ Retire(r)
          \/ PostHandler(r)
          \/ TextTurn(r)
          \/ DeleteHandler(r)
    /\ UNCHANGED widget

Spec == Init /\ [][Next]_vars

\* One POST request, whatever it holds, from arrival to the end of its turn.
NextPost == (\E r \in Slots : PostHandler(r) \/ TextTurn(r)) /\ UNCHANGED widget

SpecPost == InitPost /\ [][NextPost]_vars

\* One POST request and its turn with the tools.
NextTurn ==
    (\E r \in Slots : PostHandler(r) \/ TextTurn(r) \/ ToolTurn(r)) /\ UNCHANGED widget

SpecTurn == InitTurn /\ [][NextTurn]_vars

\* One POST request whose turn calls getWeather up to MaxStepCalls times, up
\* to MaxStepWidth times in one step; every step that can be taken is taken in the end (the
\* model's steps and the sub-generations terminate, the event loop runs every
\* continuation that is ready).
StepIds == 1..MaxStepCalls

NextSteps ==
    /\ \E r \in Slots :
          \/ PostHandler(r)
          \/ TextTurn(r)
          \/ Len(reqs[r].turn.stepCalls) < MaxStepWidth /\ CallGetWeather(r)
          \/ \E t \in StepIds : GetWeatherSettle(r, t)
    /\ UNCHANGED widget

SpecSteps == InitSteps /\ [][NextSteps]_vars /\ WF_vars(NextSteps)

\* The inline chat of one browser and the handlers its calls invoke.
NextWidget ==
    \/ WidgetMount
    \/ WidgetRekey
    \/ WidgetSubmit
    \/ WidgetUnmount
    \/ WidgetCallFails
    \/ \E r \in Slots : WidgetCallArrives(r) \/ WidgetCallAnswered(r)
    \/ (\E r \in Slots : PostHandler(r) \/ TextTurn(r) \/ DeleteHandler(r))
          /\ UNCHANGED widget

SpecWidget == Init /\ [][NextWidget]_vars

---------------------------------------------------------------------------
(* Claims *)

HasUserRole(messages) == \E i \in DOMAIN messages : messages[i].role = "user"

IsRowWrite(o) == o.op \in {"saveChat", "saveMessages", "deleteChatById"}

RowWrites(q) == SelectSeq(q.ops, IsRowWrite)

IsPost(q) == q.method = "POST"

IsDelete(q) == q.method = "DELETE"

\* a rejected POST: it has answered `status` if it has answered, and has called
\* no persistence function, written no event and left both tables as they were
RejectedWith(q, status) ==
    /\ q.pc \in {"auth", "done"}
    /\ q.pc = "done" => q.status = status
    /\ q.ops = <<>>
    /\ q.channel = <<>>
    /\ DOMAIN chats = {}
    /\ msgs = {}

\* C1: a POST without valid session (no session, no user, no user id) answers
\* 401 and creates no chat row and no message row, whatever else it holds.
C1_Unauthorized ==
    \A r \in Slots :
        IsPost(reqs[r]) /\ reqs[r].session \notin Users => RejectedWith(reqs[r], 401)

\* C1 witness: a user without id, a configured model and a user message: 401
C1_Witness ==
    \E r \in Slots :
        /\ IsPost(reqs[r]) /\ reqs[r].pc = "done" /\ reqs[r].status = 401
        /\ reqs[r].session = "noid"
        /\ reqs[r].modelId \in models
        /\ HasUserRole(reqs[r].messages)

\* C2 as stated: every POST whose modelId matches no configured model answers
\* 404 and creates no chat row and no message row.
C2_Original ==
    \A r \in Slots :
        IsPost(reqs[r]) /\ reqs[r].modelId \notin models => RejectedWith(reqs[r], 404)

\* C2 amended: a POST with a valid session whose modelId matches no configured
\* model answers 404 and creates no chat row and no message row.
C2_UnknownModel ==
    \A r \in Slots :
        IsPost(reqs[r]) /\ reqs[r].session \in Users /\ reqs[r].modelId \notin models
            => RejectedWith(reqs[r], 404)

\* C2 witness: a signed-in user, an unknown model and a user message: 404
C2_Witness ==
    \E r \in Slots :
        /\ IsPost(reqs[r]) /\ reqs[r].pc = "done" /\ reqs[r].status = 404
        /\ reqs[r].session \in Users
        /\ reqs[r].modelId \notin models
        /\ HasUserRole(reqs[r].messages)

\* C3 as stated: every POST whose messages hold no user-role entry answers 400,
\* before any row is written and before any event is emitted.
C3_Original ==
    \A r \in Slots :
        IsPost(reqs[r]) /\ ~HasUserRole(reqs[r].messages) => RejectedWith(reqs[r], 400)

\* C3 amended: a POST with a valid session and a configured model whose
\* messages hold no user-role entry answers 400, before any row is written and
\* before any event is emitted.
C3_NoUserMessage ==
    \A r \in Slots :
        /\ IsPost(reqs[r]) /\ reqs[r].session \in Users /\ reqs[r].modelId \in models
        /\ ~HasUserRole(reqs[r].messages)
        => RejectedWith(reqs[r], 400)

\* C3 witness: a non-empty submission of assistant messages only: 400
C3_Witness ==
    \E r \in Slots :
        /\ IsPost(reqs[r]) /\ reqs[r].pc = "done" /\ reqs[r].status = 400
        /\ reqs[r].messages # <<>>
        /\ ~HasUserRole(reqs[r].messages)

IsSaveChat(o) == o.op = "saveChat"
IsSaveUserMessage(o) == o.op = "saveMessages" /\ o.user = "user"

\* the POST found no chat row for its id and its stream has begun
StreamsNewChat(q) == IsPost(q) /\ q.chat = <<>> /\ q.channel # <<>>

\* C4: a POST that passes validation for a chat id without chat row creates
\* exactly one Chat row (owner: the session user, title: from the user's
\* message) and exactly one Message row (the submitted user message, under
\* that chat id), both before the first stream event.
C4_NewChat ==
    \A r \in Slots :
        LET q == reqs[r]
            chatWrites == SelectSeq(q.ops, IsSaveChat)
            messageWrites == SelectSeq(q.ops, IsSaveUserMessage)
            submitted == getMostRecentUserMessage(convertToCoreMessages(q.messages))
        IN StreamsNewChat(q) =>
              /\ Len(chatWrites) = 1
              /\ chatWrites[1].at = 0
              /\ chatWrites[1].id = q.id
              /\ chatWrites[1].user = q.session
              /\ chatWrites[1].text = generateTitleFromUserMessage(submitted[1])
              /\ Len(messageWrites) = 1
              /\ messageWrites[1].at = 0
              /\ messageWrites[1].chat = q.id
              /\ messageWrites[1].id = q.userMessageId
              /\ messageWrites[1].text = submitted[1].content[1].text

\* C4 witness: a turn streams for a chat it created, and the rows are there
C4_Witness ==
    \E r \in Slots :
        /\ StreamsNewChat(reqs[r])
        /\ reqs[r].id \in DOMAIN chats
        /\ chats[reqs[r].id].userId = reqs[r].session
        /\ \E m \in msgs : m.id = reqs[r].userMessageId /\ m.chatId = reqs[r].id

IsSavedAs(o, id) == o.op = "saveMessages" /\ o.id = id /\ o.at = 0

\* C5: the first event of every streaming response is user-message-id, it
\* carries the identifier the user message of the request was stored under,
\* and no model output and no tool event comes before it.
C5_UserMessageIdFirst ==
    \A r \in Slots :
        LET q == reqs[r]
        IN q.channel # <<>> =>
              /\ q.channel[1].type = "user-message-id"
              /\ q.channel[1].id = q.userMessageId
              /\ \E i \in DOMAIN q.ops : IsSavedAs(q.ops[i], q.channel[1].id)
              /\ \E m \in msgs : m.id = q.channel[1].id /\ m.role = "user" /\ m.chatId = q.id
              /\ \A i \in DOMAIN q.channel : q.channel[i].type = "user-message-id" => i = 1

\* C5 witness: model output and the events of a tool follow the first event
C5_Witness ==
    \E r \in Slots :
        /\ \E i \in DOMAIN reqs[r].channel : reqs[r].channel[i].type = "model-text"
        /\ \E i \in DOMAIN reqs[r].channel : reqs[r].channel[i].type = "finish"

\* a DELETE that has read the chat row and is not signed in as its owner
NonOwnerDelete(q) == IsDelete(q) /\ q.chat # <<>> /\ q.chat[1].userId # q.session

\* the step in which request r reads the chat row
ReadsChat(r) == reqs[r].pc = "dGetChat" /\ reqs'[r].pc # "dGetChat"

\* C6: a DELETE by a session user who is not the stored owner of the chat
\* answers 401 and leaves the chat and its messages unchanged.
C6_NonOwnerDelete ==
    /\ [](\A r \in Slots :
            NonOwnerDelete(reqs[r]) =>
                /\ reqs[r].pc = "done"
                /\ reqs[r].status = 401
                /\ RowWrites(reqs[r]) = <<>>)
    /\ [][\A r \in Slots :
            ReadsChat(r) /\ NonOwnerDelete(reqs'[r]) => chats' = chats /\ msgs' = msgs]_vars

\* C6 witness: a signed-in non-owner was answered 401; chat and message remain
C6_Witness ==
    \E r \in Slots :
        /\ NonOwnerDelete(reqs[r])
        /\ reqs[r].session \in Users
        /\ reqs[r].status = 401
        /\ reqs[r].id \in DOMAIN chats
        /\ chats[reqs[r].id] = reqs[r].chat[1]
        /\ \E m \in msgs : m.chatId = reqs[r].id

\* the step in which request r calls deleteChatById
Deletes(r) == reqs[r].pc = "dDelete" /\ reqs'[r].pc = "done"

\* C7: a DELETE by the owner removes the chat and answers 200; a later DELETE
\* of the same id by the same user answers 401 or 404 and changes no state.
C7_SecondDelete ==
    [][\A r \in Slots :
          /\ Deletes(r) /\ reqs[r].id \in DOMAIN chats
                /\ chats[reqs[r].id].userId = reqs[r].session
             => reqs[r].id \notin DOMAIN chats' /\ reqs'[r].status = 200
          /\ ReadsChat(r) /\ <<reqs[r].id, reqs[r].session>> \in deleted
                /\ reqs[r].id \notin DOMAIN chats
             => /\ reqs'[r].pc = "done"
                /\ reqs'[r].status \in {401, 404}
                /\ chats' = chats /\ msgs' = msgs]_vars

\* C8: the owner of a chat never changes, and a chat is deleted only by a
\* DELETE whose session user is the stored owner, under any interleaving.
C8_OwnerOnly ==
    [][\A c \in DOMAIN chats :
          /\ c \in DOMAIN chats' => chats'[c].userId = chats[c].userId
          /\ c \notin DOMAIN chats' =>
                \E r \in Slots :
                    /\ IsDelete(reqs[r]) /\ Deletes(r)
                    /\ reqs[r].id = c
                    /\ reqs[r].session = chats[c].userId]_vars

\* the events a tool invocation writes itself (the tool-call and tool-result
\* parts around them come from streamText)
IsToolEvent(e) == e.tool # 0 /\ e.type \notin {"tool-call", "tool-result", "error"}

\* the types of the events invocation t has written, in channel order
InvocationEvents(q, t) ==
    LET Mine(e) == IsToolEvent(e) /\ e.tool = t
        written == SelectSeq(q.channel, Mine)
    IN [i \in DOMAIN written |-> written[i].type]

\* invocation t is a createDocument call with kind = code
CreatesCode(q, t) ==
    /\ \E i \in DOMAIN q.channel :
          q.channel[i] = Event("tool-call", 0, <<"createDocument">>, t)
    /\ \E i \in DOMAIN q.channel :
          q.channel[i].tool = t /\ q.channel[i].type = "kind" /\ q.channel[i].text = <<"code">>

\* invocation t has returned
Returned(q, t) ==
    \E i \in DOMAIN q.channel : q.channel[i].tool = t /\ q.channel[i].type = "tool-result"

\* id, title, kind, clear, at least `least` code-delta, finish
CodeSequence(ev, least) ==
    /\ Len(ev) >= 5 + least
    /\ SubSeq(ev, 1, 4) = <<"id", "title", "kind", "clear">>
    /\ \A i \in 5..(Len(ev) - 1) : ev[i] = "code-delta"
    /\ ev[Len(ev)] = "finish"

\* what has been written so far is the beginning of such a sequence
CodeSequenceSoFar(ev) ==
    \A i \in DOMAIN ev :
        /\ i <= 4 => ev[i] = <<"id", "title", "kind", "clear">>[i]
        /\ i > 4 => ev[i] = "code-delta" \/ (ev[i] = "finish" /\ i = Len(ev))

\* C9 as stated: the events a createDocument invocation with kind = code
\* writes are exactly id, title, kind, clear, one or more code-delta, finish.
C9_Original ==
    \A r \in Slots, t \in TurnIds :
        CreatesCode(reqs[r], t) /\ Returned(reqs[r], t)
            => CodeSequence(InvocationEvents(reqs[r], t), 1)

\* C9 amended: the events a createDocument invocation with kind = code writes
\* are exactly id, title, kind, clear, zero or more code-delta, finish.
C9_CodeEvents ==
    \A r \in Slots, t \in TurnIds :
        CreatesCode(reqs[r], t) =>
            /\ CodeSequenceSoFar(InvocationEvents(reqs[r], t))
            /\ Returned(reqs[r], t) => CodeSequence(InvocationEvents(reqs[r], t), 0)

\* C9 witness: a returned invocation that wrote two code-delta events
C9_Witness ==
    \E r \in Slots, t \in TurnIds :
        /\ CreatesCode(reqs[r], t) /\ Returned(reqs[r], t)
        /\ InvocationEvents(reqs[r], t) =
              <<"id", "title", "kind", "clear", "code-delta", "code-delta", "finish">>

\* the events of one invocation are not split by an event of another
NotInterleaved(q) ==
    LET written == SelectSeq(q.channel, IsToolEvent)
    IN \A i, j, k \in DOMAIN written :
          i < j /\ j < k /\ written[i].tool = written[k].tool
              => written[j].tool = written[i].tool

\* C10: within one turn at most one tool execution is active at any time, and
\* the events of two tool invocations of the turn are never interleaved.
C10_OneToolAtATime ==
    \A r \in Slots :
        /\ Cardinality(DOMAIN reqs[r].turn.running) <= 1
        /\ NotInterleaved(reqs[r])

\* the events of type `type` that invocation t has written, in channel order
EventsOfType(q, t, type) ==
    LET Mine(e) == e.tool = t /\ e.type = type
    IN SelectSeq(q.channel, Mine)

\* the step in which invocation t of request r returns
Returns(r, t) ==
    /\ reqs[r].pc = "stream"
    /\ t \in DOMAIN reqs[r].turn.running
    /\ t \notin DOMAIN reqs'[r].turn.running

\* invocation t of request r is a requestSuggestions call consuming its items
Suggesting(r, t) == ExecAt(r, t, "requestSuggestions", "stream")

\* C11: a requestSuggestions invocation on an existing non-empty document that
\* produces n items writes exactly n suggestion events, in the order of the
\* items and each before the next item is consumed; when the items have ended
\* exactly n Suggestion rows are persisted, in one batch, each with the
\* requested documentId, the requesting user and the createdAt of the fetched
\* document.
C11_Suggestions ==
    /\ [](\A r \in Slots, t \in TurnIds :
            Suggesting(r, t) =>
                LET e == reqs[r].turn.running[t]
                    written == EventsOfType(reqs[r], t, "suggestion")
                IN /\ Len(written) = e.n
                   /\ Len(e.items) = e.n
                   /\ \A i \in DOMAIN written : written[i].id = e.items[i].id
                   /\ \A i \in DOMAIN written : \A row \in suggs :
                         row.suggestion.id # written[i].id)
    /\ [][\A r \in Slots, t \in TurnIds :
            Suggesting(r, t) /\ Returns(r, t) =>
                LET e == reqs[r].turn.running[t]
                    written == EventsOfType(reqs'[r], t, "suggestion")
                    batch == suggs' \ suggs
                IN /\ Len(written) = e.n
                   /\ suggs \subseteq suggs'
                   /\ Cardinality(batch) = e.n
                   /\ {row.suggestion.id : row \in batch}
                         = {written[i].id : i \in DOMAIN written}
                   /\ \A row \in batch :
                         /\ row.suggestion.documentId = e.docId
                         /\ row.userId = reqs[r].session
                         /\ row.documentCreatedAt = e.doc[1].createdAt]_vars
    /\ [][suggs' # suggs =>
            \E r \in Slots, t \in TurnIds : Suggesting(r, t) /\ Returns(r, t)]_vars

\* C11 witness: an invocation that produced two items has returned; two
\* suggestion events were written and both rows are stored
C11_Witness ==
    \E r \in Slots, t \in TurnIds :
        LET written == EventsOfType(reqs[r], t, "suggestion")
        IN /\ Returned(reqs[r], t)
           /\ Len(written) = 2
           /\ written[1].id < written[2].id
           /\ \A i \in DOMAIN written : \E row \in suggs :
                 /\ row.suggestion.id = written[i].id
                 /\ row.userId = reqs[r].session
                 /\ row.suggestion.documentId \in DOMAIN docs

\* invocation t of request r is about to fetch a document that is missing
\* (updateDocument, requestSuggestions) or empty (requestSuggestions)
FetchesMissing(r, t) ==
    /\ reqs[r].pc = "stream"
    /\ t \in DOMAIN reqs[r].turn.running
    /\ reqs[r].turn.running[t].pc = "fetch"
    /\ LET e == reqs[r].turn.running[t]
       IN \/ e.tool \in {"updateDocument", "requestSuggestions"}
             /\ e.docId \notin DOMAIN docs
          \/ e.tool = "requestSuggestions"
             /\ e.docId \in DOMAIN docs
             /\ docs[e.docId].content = <<>>

\* the step in which invocation t of request r goes on from its fetch
Fetches(r, t) ==
    t \notin DOMAIN reqs'[r].turn.running \/ reqs'[r].turn.running[t].pc # "fetch"

\* invocation t returned a result carrying an error field
ReturnedError(q, t) ==
    \E i \in DOMAIN q.channel : q.channel[i] = Event("tool-result", 0, <<"error">>, t)

\* C12: a document tool invoked for a missing document (updateDocument on a
\* nonexistent id; requestSuggestions on a nonexistent or empty document)
\* returns a tool result carrying an error field instead of throwing, writes
\* no event to the channel and performs no persistence write.
C12_MissingDocument ==
    /\ [][\A r \in Slots, t \in TurnIds :
            FetchesMissing(r, t) /\ Fetches(r, t) =>
                /\ t \notin DOMAIN reqs'[r].turn.running
                /\ reqs'[r].channel =
                      Append(reqs[r].channel, Event("tool-result", 0, <<"error">>, t))
                /\ reqs'[r].turn.stepFailed = reqs[r].turn.stepFailed
                /\ RowWrites(reqs'[r]) = RowWrites(reqs[r])
                /\ UNCHANGED <<chats, msgs, docs, suggs>>]_vars
    /\ [](\A r \in Slots, t \in TurnIds :
            ReturnedError(reqs[r], t) => InvocationEvents(reqs[r], t) = <<>>)

\* C12 witness: requestSuggestions returned an error for a stored document
\* with empty content, and nothing was stored for it
C12_Witness ==
    \E r \in Slots, t \in TurnIds :
        /\ \E i \in DOMAIN reqs[r].channel :
              reqs[r].channel[i] = Event("tool-call", 0, <<"requestSuggestions">>, t)
        /\ ReturnedError(reqs[r], t)
        /\ \E i \in DOMAIN reqs[r].ops :
              /\ reqs[r].ops[i].op = "getDocumentById"
              /\ reqs[r].ops[i].id \in DOMAIN docs
              /\ docs[reqs[r].ops[i].id].content = <<>>
        /\ suggs = {}

IsCompletionSave(o) == o.user = "assistant"

IsRejectedSave(o) == o.op = "saveMessages-rejected"

\* the completion-time saveMessages of the request was rejected
SaveRejected(q) == SelectSeq(q.ops, IsRejectedSave) # <<>>

\* C13: when persisting the assistant messages fails at stream completion the
\* failure is caught inside the completion handler: no error leaves the
\* handler, the delivered stream is not failed, nothing is retried, and no row
\* of the batch need exist.
C13_SaveFailureSwallowed ==
    /\ [](\A r \in Slots :
            SaveRejected(reqs[r]) =>
                /\ reqs[r].pc = "done"
                /\ reqs[r].status = 200
                /\ Len(SelectSeq(reqs[r].ops, IsCompletionSave)) = 1
                /\ \A i \in DOMAIN reqs[r].channel : reqs[r].channel[i].type # "error"
                      \/ reqs[r].channel[i].tool # 0)
    /\ [][\A r \in Slots :
            reqs[r].pc = "saveResponse" /\ SaveRejected(reqs'[r]) =>
                /\ reqs'[r].channel = reqs[r].channel
                /\ reqs'[r].status = reqs[r].status
                /\ msgs' = msgs]_vars

\* C13 witness: the save of a batch of two messages was rejected; the request
\* ended with its stream delivered and neither row stored
C13_Witness ==
    \E r \in Slots :
        /\ SaveRejected(reqs[r])
        /\ reqs[r].pc = "done" /\ reqs[r].status = 200
        /\ Len(reqs[r].turn.rows) >= 2
        /\ \A i \in DOMAIN reqs[r].turn.rows : reqs[r].turn.rows[i] \notin msgs

IsAnnotation(e) == e.type = "message-annotation"

IsAssistant(m) == m.role = "assistant"

\* the completion handler of the request has built its rows
Completed(q) == IsPost(q) /\ q.pc \in {"saveResponse", "done"} /\ q.turn.seg = "ended"

\* the completion-time saveMessages of the request was accepted
IsAcceptedSave(o) == o.op = "saveMessages" /\ o.user = "assistant"

Saved(q) == SelectSeq(q.ops, IsAcceptedSave) # <<>>

\* C14: on stream completion every assistant message that remains after the
\* incomplete tool invocations are stripped gets a fresh identifier, exactly
\* one annotation carrying that identifier is written per such message, and
\* (when saveMessages accepts them) every remaining message is stored under
\* the chat id of the request with the identifier announced for it.
C14_CompletionRows ==
    \A r \in Slots :
        LET q == reqs[r]
            rows == q.turn.rows
            remaining == sanitizeResponseMessages(q.turn.response)
            announced == SelectSeq(q.channel, IsAnnotation)
            assistants == SelectSeq(rows, IsAssistant)
            answered == ToolResultIds(q.turn.response)
        IN Completed(q) =>
              /\ Len(rows) = Len(remaining)
              /\ \A i \in DOMAIN rows :
                    /\ rows[i].role = remaining[i].role
                    /\ rows[i].content = remaining[i].content
                    /\ rows[i].chatId = q.id
                    /\ rows[i].id # q.userMessageId
                    /\ \A j \in DOMAIN rows : rows[j].id = rows[i].id => j = i
                    /\ \A k \in DOMAIN rows[i].content :
                          rows[i].role = "assistant" /\ rows[i].content[k].type = "tool-call"
                              => rows[i].content[k].toolCallId \in answered
              /\ Len(announced) = Len(assistants)
              /\ \A i \in DOMAIN announced : announced[i].id = assistants[i].id
              /\ Saved(q) => \A i \in DOMAIN rows : rows[i] \in msgs

\* C14 witness: a turn whose response held an unanswered tool call has stored
\* two assistant messages and a tool message under the announced identifiers
C14_Witness ==
    \E r \in Slots :
        LET q == reqs[r]
            unanswered == {t \in TurnIds :
                              /\ \E i \in DOMAIN q.channel :
                                    q.channel[i].type = "tool-call" /\ q.channel[i].tool = t
                              /\ t \notin ToolResultIds(q.turn.response)}
        IN /\ Completed(q) /\ Saved(q)
           /\ unanswered # {}
           /\ Len(SelectSeq(q.turn.rows, IsAssistant)) = 2
           /\ Len(q.turn.rows) = 3

\* the completion handler of the request has run
IsCompletionCall(o) == o.user = "assistant"

CompletionRuns(q) == Len(SelectSeq(q.ops, IsCompletionCall))

\* C15: a turn runs at most five model-generation steps; given that every
\* model step and every tool execution terminates, the turn reaches
\* completion and the completion handler runs exactly once.
C15_Steps ==
    /\ [](\A r \in Slots :
            /\ reqs[r].turn.step <= 5
            /\ CompletionRuns(reqs[r]) <= 1
            /\ reqs[r].pc = "done" /\ reqs[r].status = 200 =>
                  reqs[r].turn.seg = "ended" /\ CompletionRuns(reqs[r]) = 1)
    /\ \A r \in Slots :
          (reqs[r].pc = "stream") ~> (reqs[r].pc = "done" /\ CompletionRuns(reqs[r]) = 1)

\* C15 witness: a turn ended after its fifth step although every tool call of
\* that step had its result and the model had tool calls left
C15_Witness ==
    \E r \in Slots :
        /\ reqs[r].pc = "done" /\ CompletionRuns(reqs[r]) = 1
        /\ reqs[r].turn.step = 5
        /\ reqs[r].turn.stepCalls # <<>>
        /\ Len(reqs[r].turn.stepResults) = Len(reqs[r].turn.stepCalls)
        /\ reqs[r].turn.ncalls < reqs[r].turn.budget

\* the DELETE calls the inline chat has made for conversation id `id`
DeleteCalls(w, id) ==
    {i \in DOMAIN w.calls : w.calls[i].method = "DELETE" /\ w.calls[i].id = id}

\* the inline chat is showing the conversation `id`
Shows(w, id) == w.mounted /\ w.inlineChatId = id

\* the step is a cleanup: it makes a DELETE call
MakesDeleteCall ==
    /\ Len(widget'.calls) = Len(widget.calls) + 1
    /\ widget'.calls[Len(widget'.calls)].method = "DELETE"

\* the step is the outcome of a DELETE call, a response or a failure
DeleteCallSettles ==
    \E i \in DOMAIN widget.calls :
        /\ widget.calls[i].method = "DELETE"
        /\ widget.calls[i].status = NoStatus
        /\ i \in DOMAIN widget'.calls
        /\ widget'.calls[i].status # NoStatus

\* C16: for every conversation id the inline chat generates it makes one
\* DELETE call, for exactly that id, when it unmounts or the id is replaced;
\* it does not wait for the outcome of the call or react to it, and it clears
\* its local messages whether the delete succeeds or not.
C16_InlineChatCleanup ==
    /\ [](/\ \A k \in DOMAIN widget.ids :
                Cardinality(DeleteCalls(widget, widget.ids[k]))
                    = IF Shows(widget, widget.ids[k]) THEN 0 ELSE 1
          /\ \A i \in DOMAIN widget.calls :
                \E k \in DOMAIN widget.ids : widget.calls[i].id = widget.ids[k]
          /\ ~widget.mounted => widget.messages = <<>>)
    /\ [][MakesDeleteCall =>
            /\ widget'.calls[Len(widget'.calls)] = Call("DELETE", widget.inlineChatId, <<>>)
            /\ widget'.messages = <<>>
            /\ widget'.inlineChatId # widget.inlineChatId]_vars
    /\ [][DeleteCallSettles =>
            widget' = [widget EXCEPT !.calls = widget'.calls]]_vars

\* C16 witness: two conversation ids were generated and given up; the delete
\* of one was answered 200, the delete of the other failed, and the local
\* messages are cleared
C16_Witness ==
    /\ ~widget.mounted
    /\ Len(widget.ids) = 2
    /\ widget.messages = <<>>
    /\ \E i, j \in DOMAIN widget.calls :
          /\ widget.calls[i].method = "DELETE" /\ widget.calls[i].status = 200
          /\ widget.calls[j].method = "DELETE" /\ widget.calls[j].status \in {500, Failed}
          /\ widget.calls[i].id # widget.calls[j].id

\* the contents of a sequence of events, one after the other
RECURSIVE Concatenated(_)
Concatenated(events) ==
    IF events = <<>> THEN <<>> ELSE Head(events).text \o Concatenated(Tail(events))

\* the content of the last event of a sequence, nothing if there is none
LastContent(events) == IF events = <<>> THEN <<>> ELSE events[Len(events)].text

\* the content the deltas invocation t has written amount to
DeltaContent(q, t, kind) ==
    IF kind = "text" THEN Concatenated(EventsOfType(q, t, "text-delta"))
    ELSE LastContent(EventsOfType(q, t, "code-delta"))

\* the position of the first event of type `type` of invocation t, 0 if none
PositionOf(q, t, type) ==
    LET at == {i \in DOMAIN q.channel : q.channel[i].tool = t /\ q.channel[i].type = type}
    IN IF at = {} THEN 0 ELSE CHOOSE i \in at : \A j \in at : i <= j

\* C17: the Document a createDocument invocation persists has the identifier
\* announced in its id event, the requested title and kind, the requesting
\* user as owner, and as content the concatenation of the text-delta contents
\* (kind text) or the content of the last code-delta (kind code); it is
\* written after the finish event.
C17_CreatedDocument ==
    /\ [][\A r \in Slots, t \in TurnIds :
            ExecAt(r, t, "createDocument", "save") /\ Returns(r, t) =>
                LET q == reqs[r]
                    e == q.turn.running[t]
                    announced == EventsOfType(q, t, "id")
                    write == reqs'[r].ops[Len(reqs'[r].ops)]
                IN /\ Len(announced) = 1
                   /\ announced[1].id \in DOMAIN docs'
                   /\ announced[1].id \notin DOMAIN docs
                   /\ docs'[announced[1].id].title = e.title
                   /\ docs'[announced[1].id].kind = e.kind
                   /\ docs'[announced[1].id].userId = q.session
                   /\ docs'[announced[1].id].content = DeltaContent(q, t, e.kind)
                   /\ EventsOfType(q, t, "title")[1].text = e.title
                   /\ EventsOfType(q, t, "kind")[1].text = <<e.kind>>
                   /\ \A d \in DOMAIN docs : docs'[d] = docs[d]
                   /\ PositionOf(q, t, "finish") > 0
                   /\ write.op = "saveDocument"
                   /\ write.at >= PositionOf(q, t, "finish")]_vars
    /\ [](\A r \in Slots, t \in TurnIds :
            /\ reqs[r].pc = "stream"
            /\ t \in DOMAIN reqs[r].turn.running
            /\ reqs[r].turn.running[t].tool = "createDocument"
            => reqs[r].turn.running[t].docId \notin DOMAIN docs)

\* C17 witness: a code document was created from two code-delta events of
\* different content and is stored with the content of the second; a text
\* document would hold both deltas
C17_Witness ==
    \E r \in Slots, t \in TurnIds :
        LET q == reqs[r]
            deltas == EventsOfType(q, t, "code-delta")
            announced == EventsOfType(q, t, "id")
        IN /\ CreatesCode(q, t) /\ Returned(q, t)
           /\ Len(deltas) = 2
           /\ deltas[1].text # deltas[2].text
           /\ announced[1].id \in DOMAIN docs
           /\ docs[announced[1].id].content = deltas[2].text
           /\ docs[announced[1].id].userId = q.session

\* the events invocation t has written, in channel order
ToolEvents(q, t) ==
    LET Mine(e) == IsToolEvent(e) /\ e.tool = t
    IN SelectSeq(q.channel, Mine)

\* invocation t of request r is an updateDocument call that has fetched its document
Updating(r, t) ==
    /\ reqs[r].pc = "stream"
    /\ t \in DOMAIN reqs[r].turn.running
    /\ reqs[r].turn.running[t].tool = "updateDocument"
    /\ reqs[r].turn.running[t].pc \in {"stream", "save"}

\* C18: an updateDocument invocation on an existing document first writes
\* clear with the existing title, then the deltas of the document's kind, then
\* finish; the record saved afterwards has the identifier, the title and the
\* kind of the fetched document and the regenerated draft as content.
C18_UpdatedDocument ==
    /\ [](\A r \in Slots, t \in TurnIds :
            Updating(r, t) =>
                LET e == reqs[r].turn.running[t]
                    ev == ToolEvents(reqs[r], t)
                IN /\ Len(ev) >= 1
                   /\ ev[1] = Event("clear", 0, e.doc[1].title, t)
                   /\ \A i \in 2..Len(ev) :
                         \/ ev[i].type = (IF e.doc[1].kind = "text" THEN "text-delta"
                                          ELSE "code-delta")
                         \/ ev[i].type = "finish" /\ i = Len(ev) /\ e.pc = "save"
                   /\ e.pc = "save" => ev[Len(ev)].type = "finish")
    /\ [][\A r \in Slots, t \in TurnIds :
            Updating(r, t) /\ Returns(r, t) =>
                LET q == reqs[r]
                    e == q.turn.running[t]
                IN /\ e.pc = "save"
                   /\ e.docId \in DOMAIN docs'
                   /\ docs'[e.docId].title = e.doc[1].title
                   /\ docs'[e.docId].kind = e.doc[1].kind
                   /\ docs'[e.docId].content = DeltaContent(q, t, e.doc[1].kind)
                   /\ DOMAIN docs' = DOMAIN docs \cup {e.docId}
                   /\ \A d \in DOMAIN docs : d # e.docId => docs'[d] = docs[d]]_vars

IsSaveDocument(o) == o.op = "saveDocument"

\* C18 witness: a stored document was updated; its content is the new draft,
\* which differs from the content it was created with
C18_Witness ==
    \E r \in Slots, t \in TurnIds :
        LET q == reqs[r]
            saves == SelectSeq(q.ops, IsSaveDocument)
        IN /\ \E i \in DOMAIN q.channel :
                 q.channel[i] = Event("tool-call", 0, <<"updateDocument">>, t)
           /\ \E i \in DOMAIN q.channel :
                 q.channel[i] = Event("tool-result", 0, <<"updated">>, t)
           /\ Len(saves) = 2
           /\ saves[1].id = saves[2].id
           /\ saves[1].text # saves[2].text
           /\ saves[2].text # <<>>
           /\ docs[saves[2].id].content = saves[2].text
           /\ docs[saves[2].id].content = DeltaContent(q, t, docs[saves[2].id].kind)

\* the status the request alone determines
StatusOf(q) ==
    IF q.session \notin Users THEN 401
    ELSE IF q.modelId \notin models THEN 404
    ELSE IF ~HasUserRole(q.messages) THEN 400
    ELSE 200

\* C19: POST validation has a fixed precedence: without session 401, whatever
\* the model and the messages; with a session and an unknown model 404,
\* whatever the messages; 400 only with a valid session and a known model; and
\* no persistence read or write comes before any of the three rejections.
C19_Precedence ==
    \A r \in Slots :
        LET q == reqs[r]
        IN IsPost(q) =>
              /\ q.pc = "done" => q.status = StatusOf(q)
              /\ q.status = 400 => q.session \in Users /\ q.modelId \in models
              /\ StatusOf(q) # 200 => q.pc \in {"auth", "done"} /\ q.ops = <<>>
              /\ q.status \in {400, 401, 404} => q.ops = <<>> /\ q.channel = <<>>

\* C19 witness: a signed-in user, an unknown model and no user message: 404
C19_Witness ==
    \E r \in Slots :
        /\ IsPost(reqs[r]) /\ reqs[r].pc = "done" /\ reqs[r].status = 404
        /\ reqs[r].session \in Users
        /\ reqs[r].modelId \notin models
        /\ ~HasUserRole(reqs[r].messages)

\* a message row whose chat id has no chat row
Dangling(m) == m.chatId \notin DOMAIN chats

\* C20: across any interleaving of a streaming turn with a DELETE for the same
\* chat id, every message row that exists references a chat row that exists:
\* neither the user-message write of route.ts:122-127 nor the completion-time
\* write of route.ts:503 leaves a row behind for a chat that has been deleted.
C20_NoDanglingMessages == \A m \in msgs : ~Dangling(m)

\* the step in which request r adds a message row under a chat that exists
AppendsToChat(r, c) ==
    /\ reqs'[r] # reqs[r]
    /\ c \in DOMAIN chats
    /\ \E m \in msgs' \ msgs : m.chatId = c

\* C21: a message row is appended to an existing chat only by a POST whose
\* session user is the stored owner of that chat: a POST by another signed-in
\* user to an existing chat id writes no message row under it.
C21_OwnerAppends ==
    [][\A r \in Slots : \A c \in ChatIds :
          AppendsToChat(r, c) => IsPost(reqs[r]) /\ chats[c].userId = reqs[r].session]_vars

====
